---- MODULE Spec2Model ----
(***************************************************************************)
(* A model of json_parser.py: the regex tokenizer (lex), the string escape *)
(* validator (_validate_string), the one-slot LookAhead iterator and the   *)
(* recursive-descent parser (parse, _parse_value, _parse_array,            *)
(* _parse_object, _expect).                                                *)
(*                                                                         *)
(* A text is a sequence of one-character strings.  Offsets are zero-based  *)
(* as in the source; the character at offset i of text is text[i + 1].     *)
(***************************************************************************)
EXTENDS Integers, Sequences, FiniteSets, TLC

(***************************************************************************)
(* Bounds of the model.                                                    *)
(***************************************************************************)
\* deepest nesting of the generated nested documents, and largest max_depth tried
MaxNest == 3
\* number of lexemes appended after a fixed document prefix (parse inputs)
MaxTail == 2
\* number of members of the generated objects (duplicate-key inputs)
MaxKeys == 3
\* number of pieces of the generated lex inputs
MaxLexPieces == 3
\* number of pieces of the generated string interiors (validator inputs)
MaxStrPieces == 3
\* largest token_start passed to a direct _validate_string call
MaxStart == 1
\* texts handed to a bare cursor are built of up to MaxCursorPieces pieces
MaxCursorPieces == 3
\* after its opening quote a string under test is built of up to MaxOpenPieces pieces
MaxOpenPieces == 3
\* a bare cursor receives up to MaxCalls calls of peek and next
MaxCalls == 6

\* json_parser.py line 55
DEPTH_LIMIT_DEFAULT == 19

(***************************************************************************)
(* Characters.                                                             *)
(***************************************************************************)
QUOTE == "\""
BSLASH == "\\"
LF == "\n"
\* what an index past the end of a text reads as: no character at all
EOT == ""

At(s, i) == IF 0 <= i /\ i < Len(s) THEN s[i + 1] ELSE EOT

\* Python slice s[a:b] for 0 <= a
Slice(s, a, b) ==
    LET hi == IF b > Len(s) THEN Len(s) ELSE b
    IN  IF a >= hi THEN <<>> ELSE SubSeq(s, a + 1, hi)

RECURSIVE Cat(_)
Cat(ss) == IF ss = <<>> THEN <<>> ELSE Head(ss) \o Cat(Tail(ss))

DigitChars == <<"0", "1", "2", "3", "4", "5", "6", "7", "8", "9">>
HexChars ==
    <<"0", "1", "2", "3", "4", "5", "6", "7", "8", "9",
      "a", "b", "c", "d", "e", "f", "A", "B", "C", "D", "E", "F">>

IsDigit(c) == \E i \in 1..Len(DigitChars) : DigitChars[i] = c
IsHex(c) == \E i \in 1..Len(HexChars) : HexChars[i] = c
DigitVal(c) == (CHOOSE i \in 1..Len(DigitChars) : DigitChars[i] = c) - 1
HexVal(c) ==
    LET i == CHOOSE j \in 1..Len(HexChars) : HexChars[j] = c
    IN  IF i <= 16 THEN i - 1 ELSE i - 7

\* \s of the regex, over the characters the model uses
IsSpace(c) == c \in {" ", LF}
\* \x00-\x1F of the regex, over the characters the model uses
IsControl(c) == c = LF

\* ord() of the characters the model puts inside strings
OrdTable ==
    << <<"a", 97>>, <<"b", 98>>, <<"f", 102>>, <<"g", 103>>, <<"n", 110>>,
       <<"q", 113>>, <<"r", 114>>, <<"t", 116>>, <<"u", 117>>, <<"/", 47>>,
       <<"0", 48>>, <<"1", 49>>, <<"2", 50>>, <<"3", 51>>, <<"6", 54>>,
       <<"8", 56>>, <<"C", 67>>, <<"D", 68>>, <<" ", 32>>, <<"\"", 34>>,
       <<"\\", 92>>, <<"\n", 10>>, <<"[", 91>>, <<"]", 93>>, <<",", 44>>,
       <<":", 58>>, <<"{", 123>>, <<"}", 125>>, <<"@", 64>>, <<"-", 45>>,
       <<".", 46>>, <<"e", 101>>, <<"l", 108>>, <<"s", 115>> >>
Ord(c) == (OrdTable[CHOOSE i \in 1..Len(OrdTable) : OrdTable[i][1] = c])[2]

(***************************************************************************)
(* Errors and results.  An offset is <<n>> when the message carries one    *)
(* and <<>> when it does not.                                              *)
(***************************************************************************)
SynErr(kind, offset, info) ==
    [class |-> "SyntaxError", kind |-> kind, offset |-> offset, info |-> info]
StopIteration ==
    [class |-> "StopIteration", kind |-> "StopIteration", offset |-> <<>>, info |-> <<>>]

(***************************************************************************)
(* _validate_string                                                        *)
(***************************************************************************)
\* an escape error forgets the opening quote when it places itself
EscapeOffsetNoQuote(token_start, i) == token_start + i

\* the absolute offset of the backslash at interior index i
EscapeOffset(token_start, i) == token_start + 1 + i

\* the while loop over the interior: <<>> when every escape is well formed,
\* <<err>> for the first one that is not
RECURSIVE ScanEscapes(_, _, _)
ScanEscapes(inner, i, token_start) ==
    LET n == Len(inner)
        ch == At(inner, i)
        esc == At(inner, i + 1)
    IN  IF i >= n THEN <<>>
        ELSE IF ch = BSLASH
        THEN IF i + 1 >= n
             THEN <<SynErr("TrailingBackslash", <<EscapeOffset(token_start, i)>>, <<>>)>>
             ELSE IF esc = "u"
             THEN IF i + 6 > n
                  THEN <<SynErr("ShortUnicodeEscape", <<EscapeOffset(token_start, i)>>, <<>>)>>
                  ELSE IF ~ (\A k \in (i + 2)..(i + 5) : IsHex(At(inner, k)))
                  THEN <<SynErr("InvalidHexEscape", <<EscapeOffset(token_start, i)>>,
                                Slice(inner, i, i + 6))>>
                  ELSE ScanEscapes(inner, i + 6, token_start)
             ELSE IF esc \in {QUOTE, BSLASH, "/", "b", "f", "n", "r", "t"}
             THEN ScanEscapes(inner, i + 2, token_start)
             ELSE <<SynErr("InvalidEscape", <<EscapeOffset(token_start, i)>>, <<esc>>)>>
        ELSE ScanEscapes(inner, i + 1, token_start)

Hex4(inner, i) ==
    4096 * HexVal(At(inner, i)) + 256 * HexVal(At(inner, i + 1))
        + 16 * HexVal(At(inner, i + 2)) + HexVal(At(inner, i + 3))

\* inner.encode("utf-8").decode("unicode_escape") on an interior that passed
\* ScanEscapes: every \uXXXX becomes the one code point XXXX (the codec does
\* not join surrogate pairs), \/ is no escape of the codec and stays as the
\* two characters, the other short escapes become their character.
RECURSIVE UnicodeEscapeDecode(_, _)
UnicodeEscapeDecode(inner, i) ==
    LET ch == At(inner, i)
        esc == At(inner, i + 1)
    IN  IF i >= Len(inner) THEN <<>>
        ELSE IF ch = BSLASH
        THEN IF esc = "u"
             THEN <<Hex4(inner, i + 2)>> \o UnicodeEscapeDecode(inner, i + 6)
             ELSE IF esc = "/"
             THEN <<92, 47>> \o UnicodeEscapeDecode(inner, i + 2)
             ELSE <<CASE esc = QUOTE -> 34
                      [] esc = BSLASH -> 92
                      [] esc = "b" -> 8
                      [] esc = "f" -> 12
                      [] esc = "n" -> 10
                      [] esc = "r" -> 13
                      [] esc = "t" -> 9>> \o UnicodeEscapeDecode(inner, i + 2)
        ELSE <<Ord(ch)>> \o UnicodeEscapeDecode(inner, i + 1)

IsSurrogate(code) == 55296 <= code /\ code <= 57343

\* the for loop over the decoded text
SurrogateCheck(decoded) ==
    IF \E k \in 1..Len(decoded) : IsSurrogate(decoded[k])
    THEN [ok |-> FALSE, val |-> <<>>, err |-> SynErr("UnpairedSurrogate", <<>>, <<>>)]
    ELSE [ok |-> TRUE, val |-> decoded, err |-> <<>>]

\* _validate_string(raw, token_start): [ok, val, err]
ValidateString(raw, token_start) ==
    IF Len(raw) < 2 \/ raw[1] # QUOTE \/ raw[Len(raw)] # QUOTE
    THEN IF Len(raw) > 0 /\ raw[Len(raw)] = BSLASH
         THEN [ok |-> FALSE, val |-> <<>>,
               err |-> SynErr("TrailingBackslash", <<token_start + Len(raw) - 1>>, <<>>)]
         ELSE [ok |-> FALSE, val |-> <<>>,
               err |-> SynErr("UnterminatedString", <<token_start>>, <<>>)]
    ELSE LET inner == Slice(raw, 1, Len(raw) - 1)
             bad == ScanEscapes(inner, 0, token_start)
         IN  IF bad # <<>>
             THEN [ok |-> FALSE, val |-> <<>>, err |-> bad[1]]
             ELSE SurrogateCheck(UnicodeEscapeDecode(inner, 0))

(***************************************************************************)
(* _TOKEN_RE: each pattern matched at offset p gives <<end>> or <<>>.      *)
(***************************************************************************)
RECURSIVE DigitsEnd(_, _)
DigitsEnd(s, i) == IF IsDigit(At(s, i)) THEN DigitsEnd(s, i + 1) ELSE i

\* the integer part takes every digit, a leading zero included: \d+
IntegerPartAnyDigits(s, q) == DigitsEnd(s, q + 1)

\* the end of the integer part (?:0|[1-9]\d*) that starts with the digit at q
IntegerPartEnd(s, q) == IF At(s, q) = "0" THEN q + 1 ELSE DigitsEnd(s, q + 1)

\* _NUMBER   -?(?:0|[1-9]\d*)(?:\.\d+)?(?:[eE][+-]?\d+)?
NumberMatch(s, p) ==
    LET q == IF At(s, p) = "-" THEN p + 1 ELSE p
        c == At(s, q)
    IN  IF ~ IsDigit(c) THEN <<>>
        ELSE LET intEnd == IntegerPartEnd(s, q)
                 fracEnd == IF At(s, intEnd) = "." /\ IsDigit(At(s, intEnd + 1))
                            THEN DigitsEnd(s, intEnd + 1)
                            ELSE intEnd
                 signEnd == IF At(s, fracEnd + 1) \in {"+", "-"}
                            THEN fracEnd + 2
                            ELSE fracEnd + 1
                 expEnd == IF At(s, fracEnd) \in {"e", "E"} /\ IsDigit(At(s, signEnd))
                           THEN DigitsEnd(s, signEnd)
                           ELSE fracEnd
             IN  <<expEnd>>

\* the body of _STRING after the opening quote   (?:[^"\\\x00-\x1F]|\\.)*"
RECURSIVE StringBody(_, _)
StringBody(s, i) ==
    LET c == At(s, i)
    IN  IF c = EOT THEN <<>>
        ELSE IF c = QUOTE THEN <<i + 1>>
        ELSE IF c = BSLASH
        THEN IF At(s, i + 1) = EOT \/ At(s, i + 1) = LF
             THEN <<>>
             ELSE StringBody(s, i + 2)
        ELSE IF IsControl(c) THEN <<>>
        ELSE StringBody(s, i + 1)

StringMatch(s, p) == IF At(s, p) = QUOTE THEN StringBody(s, p + 1) ELSE <<>>

StartsWith(s, p, w) == Slice(s, p, p + Len(w)) = w

\* _LITERAL   true|false|null
LiteralMatch(s, p) ==
    IF StartsWith(s, p, <<"t", "r", "u", "e">>) THEN <<p + 4>>
    ELSE IF StartsWith(s, p, <<"f", "a", "l", "s", "e">>) THEN <<p + 5>>
    ELSE IF StartsWith(s, p, <<"n", "u", "l", "l">>) THEN <<p + 4>>
    ELSE <<>>

RECURSIVE SpaceEnd(_, _)
SpaceEnd(s, i) == IF IsSpace(At(s, i)) THEN SpaceEnd(s, i + 1) ELSE i

\* the alternation of _TOKEN_RE at offset p, given what the STRING (sm),
\* NUMBER (nm) and LITERAL (lm) groups match there: <<kind, end>> of the first
\* alternative that matches, <<>> when none does
FirstAlternative(s, p, sm, nm, lm) ==
    IF sm # <<>> THEN <<"STRING", sm[1]>>
    ELSE IF nm # <<>> THEN <<"NUMBER", nm[1]>>
    ELSE IF lm # <<>> THEN <<"LITERAL", lm[1]>>
    ELSE IF At(s, p) \in {"{", "}"} THEN <<"BRACE", p + 1>>
    ELSE IF At(s, p) \in {"[", "]"} THEN <<"BRACKET", p + 1>>
    ELSE IF At(s, p) = "," THEN <<"COMMA", p + 1>>
    ELSE IF At(s, p) = ":" THEN <<"COLON", p + 1>>
    ELSE IF IsSpace(At(s, p)) THEN <<"WHITESPACE", SpaceEnd(s, p)>>
    ELSE <<>>

\* _TOKEN_RE.match at offset p
MatchAt(s, p) ==
    FirstAlternative(s, p, StringMatch(s, p), NumberMatch(s, p), LiteralMatch(s, p))

\* the next match finditer produces when its scan stands at offset from: the
\* leftmost offset >= from where the pattern matches; <<start, kind, end>> or <<>>
RECURSIVE FindIter(_, _)
FindFrom(s, from, m) ==
    IF m # <<>> THEN <<from, m[1], m[2]>> ELSE FindIter(s, from + 1)
FindIter(s, from) ==
    IF from >= Len(s) THEN <<>> ELSE FindFrom(s, from, MatchAt(s, from))

(***************************************************************************)
(* lex: one pass of the for loop over _TOKEN_RE.finditer(text).            *)
(***************************************************************************)
Token(kind, value, offset) == [kind |-> kind, value |-> value, offset |-> offset]

RECURSIVE DigitsToInt(_, _)
DigitsToInt(ds, acc) ==
    IF ds = <<>> THEN acc ELSE DigitsToInt(Tail(ds), 10 * acc + DigitVal(Head(ds)))

\* int(value) of a lexeme matched by _NUMBER that has no '.', 'e' or 'E'
IntOf(lexeme) ==
    IF Head(lexeme) = "-" THEN 0 - DigitsToInt(Tail(lexeme), 0) ELSE DigitsToInt(lexeme, 0)

\* float(value) if any(c in value for c in ".eE") else int(value); a float is
\* kept as its lexeme
NumberValue(lexeme) ==
    IF \E k \in 1..Len(lexeme) : lexeme[k] \in {".", "e", "E"}
    THEN <<"float", lexeme>>
    ELSE <<"int", IntOf(lexeme)>>

LiteralValue(lexeme) ==
    CASE lexeme = <<"t", "r", "u", "e">> -> "True"
      [] lexeme = <<"f", "a", "l", "s", "e">> -> "False"
      [] lexeme = <<"n", "u", "l", "l">> -> "None"

\* the gap test only looks for a match that starts before pos
IsGapBackwardOnly(start, p) == start < p

\* the gap test of lex, applied to the match finditer produced (start) and
\* the end of the previous match (p)
IsGap(start, p) == start # p

NoStep(p) == [st |-> "stop", tok |-> <<>>, err |-> <<>>, p |-> p, span |-> <<>>]

\* the body of the loop for the match m = <<start, kind, end>>
LexBody(s, p, start, kind, end, value) ==
    IF IsGap(start, p)
    THEN [NoStep(p) EXCEPT !.st = "raise",
                           !.err = SynErr("MalformedCharacter", <<p>>, <<>>)]
    ELSE IF kind = "WHITESPACE"
    THEN [NoStep(end) EXCEPT !.st = "skip", !.span = <<<<start, end, kind>>>>]
    ELSE IF kind = "STRING"
    THEN [NoStep(end) EXCEPT
             !.st = IF ValidateString(value, start).ok THEN "yield" ELSE "raise",
             !.tok = Token(kind, ValidateString(value, start).val, start),
             !.err = ValidateString(value, start).err,
             !.span = <<<<start, end, kind>>>>]
    ELSE [NoStep(end) EXCEPT
             !.st = "yield",
             !.tok = Token(kind,
                           CASE kind = "NUMBER" -> NumberValue(value)
                             [] kind = "LITERAL" -> LiteralValue(value)
                             [] OTHER -> value[1],
                           start),
             !.span = <<<<start, end, kind>>>>]

\* the loop given finditer's next match m, or the code after the loop when
\* there is none
LexStep(s, p, m) ==
    IF m = <<>>
    THEN IF p # Len(s)
         THEN [NoStep(p) EXCEPT !.st = "raise",
                                !.err = SynErr("MalformedCharacter", <<p>>, <<>>)]
         ELSE NoStep(p)
    ELSE LexBody(s, p, m[1], m[2], m[3], Slice(s, m[1], m[3]))

\* One iteration of the loop, or the code after the loop when finditer has no
\* further match.  st is "yield" (a token), "skip" (whitespace: continue),
\* "raise" or "stop" (the generator returns).  p is the new value of pos and
\* span the match accepted, if any.
LexIterOp(s, p) == LexStep(s, p, FindIter(s, p))

\* what next() on the generator gives when one more iteration gave r
RECURSIVE GenNext(_, _)
GenStep(s, lx, r) ==
    LET lx2 == [pos |-> r.p, gen |-> lx.gen, spans |-> lx.spans \o r.span]
    IN  IF r.st = "skip" THEN GenNext(s, lx2)
        ELSE IF r.st = "yield"
        THEN [st |-> "yield", tok |-> r.tok, err |-> <<>>, lx |-> lx2]
        ELSE IF r.st = "raise"
        THEN [st |-> "raise", tok |-> <<>>, err |-> r.err,
              lx |-> [lx2 EXCEPT !.gen = "raised"]]
        ELSE [st |-> "stop", tok |-> <<>>, err |-> <<>>,
              lx |-> [lx2 EXCEPT !.gen = "done"]]

\* next() on the generator lex(text): the loop runs until it yields, raises
\* or returns.  lx = [pos, gen, spans] is the generator's state; a generator
\* that has returned or raised answers every later next() with StopIteration.
GenNext(s, lx) ==
    IF lx.gen # "running"
    THEN [st |-> "stop", tok |-> <<>>, err |-> <<>>, lx |-> lx]
    ELSE GenStep(s, lx, LexIterOp(s, lx.pos))

(***************************************************************************)
(* LookAhead: the one-slot pushback iterator over lex(text).               *)
(***************************************************************************)
\* next(self._iter) gave g; the buffer becomes b
FromIter(g, b) == [st |-> g.st, tok |-> g.tok, err |-> g.err, lx |-> g.lx, buf |-> b]

\* LookAhead.__next__
LANext(s, b, lx) ==
    IF b # <<>>
    THEN [st |-> "yield", tok |-> b[Len(b)], err |-> <<>>, lx |-> lx,
          buf |-> SubSeq(b, 1, Len(b) - 1)]
    ELSE FromIter(GenNext(s, lx), b)

\* peek hands on the token it pulled and buffers nothing
PeekFillNoBuffer(g, b) == FromIter(g, b)

\* self._buf.append(next(self._iter)), where next gave g
PeekFill(g, b) == FromIter(g, IF g.st = "yield" THEN Append(b, g.tok) ELSE b)

\* LookAhead.peek
LAPeek(s, b, lx) ==
    IF b = <<>>
    THEN PeekFill(GenNext(s, lx), b)
    ELSE [st |-> "yield", tok |-> b[Len(b)], err |-> <<>>, lx |-> lx, buf |-> b]

(***************************************************************************)
(* Values built by the parser.  An array holds its items in order, an      *)
(* object its <<key, value>> members in insertion order (a Python dict).   *)
(***************************************************************************)
ScalarVal(tok) == [t |-> tok.kind, v |-> tok.value]
ArrayVal(items) == [t |-> "array", v |-> items]
ObjectVal(members) == [t |-> "object", v |-> members]

\* key in obj
HasKey(members, key) == \E i \in 1..Len(members) : members[i][1] = key

\* obj[key] = val
DictSet(members, key, val) ==
    IF HasKey(members, key)
    THEN LET i == CHOOSE j \in 1..Len(members) : members[j][1] = key
         IN  [members EXCEPT ![i] = <<key, val>>]
    ELSE Append(members, <<key, val>>)

\* the duplicate test looks at the member stored last only
IsDuplicateOfLast(allow, members, key) ==
    ~ allow /\ members # <<>> /\ members[Len(members)][1] = key

\* the test _parse_object makes between the colon and the value
IsDuplicate(allow, members, key) == ~ allow /\ HasKey(members, key)

\* the test _parse_value makes on entry
DepthExceeded(d, maxd) == d > maxd

\* the root test lets a string through as well
RootRejectedUnlessString(first_kind) == first_kind \notin {"BRACE", "BRACKET", "STRING"}

\* the test parse makes on the first token
RootRejected(first_kind) == first_kind \notin {"BRACE", "BRACKET"}

\* the test _expect makes on the token it consumed
ExpectMismatch(tok, expected_kind, expected_value) ==
    tok.kind # expected_kind \/ (expected_value # <<>> /\ tok.value # expected_value[1])

\* the closer test compares the kind alone
IsCloserByKind(tok, kind, value) == tok.kind = kind

\* the closing token _parse_array / _parse_object look for
IsCloser(tok, kind, value) == tok.kind = kind /\ tok.value = value

Frame(fn, d) == [fn |-> fn, depth |-> d, acc |-> <<>>, key |-> <<>>]

(***************************************************************************)
(* Inputs.                                                                 *)
(***************************************************************************)
SeqsUpTo(S, n) == UNION {[1..k -> S] : k \in 0..n}

L_a == <<QUOTE, "a", QUOTE>>
L_b == <<QUOTE, "b", QUOTE>>
\* "a", which decodes to the text of L_a
L_ua == <<QUOTE, BSLASH, "u", "0", "0", "6", "1", QUOTE>>
L_true == <<"t", "r", "u", "e">>

\* a document of Len(ks) containers nested one inside another; ks names the
\* opening character of each level, outermost first.  fill is the number of
\* scalars the innermost container holds; sib = 1 puts a scalar sibling
\* before each nested container, sib = 2 after it.
RECURSIVE NestText(_, _, _)
NestText(ks, fill, sib) ==
    LET k == Head(ks)
        key == IF k = "{" THEN L_a \o <<":">> ELSE <<>>
        key2 == IF k = "{" THEN L_b \o <<":">> ELSE <<>>
        close == IF k = "{" THEN <<"}">> ELSE <<"]">>
        one == key \o <<"1">>
        two == key2 \o <<"1">>
        body == IF Len(ks) = 1
                THEN CASE fill = 0 -> <<>>
                       [] fill = 1 -> one
                       [] OTHER -> one \o <<",">> \o two
                ELSE CASE sib = 0 -> key \o NestText(Tail(ks), fill, sib)
                       [] sib = 1 -> two \o <<",">> \o key \o NestText(Tail(ks), fill, sib)
                       [] OTHER -> key \o NestText(Tail(ks), fill, sib) \o <<",">> \o two
    IN  <<k>> \o body \o close

NestShapes == SeqsUpTo({"[", "{"}, MaxNest) \ {<<>>}

\* documents that stop part-way or go on after the root value: a prefix
\* followed by up to MaxTail lexemes
Prefixes ==
    { <<>>,
      <<"[">>,
      <<"[", "1">>,
      <<"[", "1", "]">>,
      <<"{", "}">>,
      <<"{">> \o L_a,
      <<"{">> \o L_a \o <<":", "1">>,
      <<"{">> \o L_a \o <<":", "1", ",">>,
      <<"[", "[", "1", "]">> }
TailPieces ==
    { <<"[">>, <<"]">>, <<"{">>, <<"}">>, <<",">>, <<":">>, <<"1">>, <<"0">>,
      <<" ">>, <<"@">>, L_a, L_true }

\* { k1 : 1 , k2 : 2 , ... }, the first value an object of its own when nested
KeyLexemes == {L_a, L_b, L_ua}
RECURSIVE MembersText(_, _, _)
MembersText(keys, i, nested) ==
    IF i > Len(keys) THEN <<>>
    ELSE (IF i > 1 THEN <<",">> ELSE <<>>)
         \o keys[i] \o <<":">>
         \o (IF nested /\ i = 1
             THEN <<"{">> \o L_a \o <<":", "9", "}">>
             ELSE <<DigitChars[i + 1]>>)
         \o MembersText(keys, i + 1, nested)
ObjectText(keys, nested) == <<"{">> \o MembersText(keys, 1, nested) \o <<"}">>

LexPieces ==
    { <<"0">>, <<"1">>, <<"-">>, <<".">>, <<"e">>, <<" ">>, <<LF>>, <<QUOTE>>, <<"a">>,
      <<"[">>, <<"}">>, <<",">>, L_a, <<QUOTE, BSLASH, "q", QUOTE>>, L_true,
      <<"n", "u", "l">> }

\* pieces of the texts under a bare cursor: tokens, white space, a character
\* no alternative matches and a string the validator rejects
CursorPieces ==
    { <<"1">>, <<"[">>, <<",">>, <<" ">>, L_a, <<"a">>, <<QUOTE, BSLASH, "q", QUOTE>> }

\* what stands before the opening quote of a string under test, and the
\* pieces the text after that quote is built of
OpenLeads == { <<>>, <<" ">>, <<"[">>, <<"[", "1", ",">> }
OpenPieces == { <<"a">>, <<BSLASH>>, <<BSLASH, QUOTE>>, <<QUOTE>> }

StrPieces ==
    { <<"a">>, <<QUOTE>>, <<BSLASH>>, <<"u">>, <<"0">>,
      <<BSLASH, "n">>, <<BSLASH, "/">>, <<BSLASH, "q">>,
      <<BSLASH, "u", "1", "2">>, <<BSLASH, "u", "1", "2", "3", "g">>,
      <<BSLASH, "u", "0", "0", "6", "1">>,
      <<BSLASH, "u", "D", "8", "0", "0">>, <<BSLASH, "u", "D", "C", "0", "0">> }

(***************************************************************************)
(* State.                                                                  *)
(***************************************************************************)
VARIABLES
    mode,         \* which entry point runs: "parse", "lex", "validate" or "cursor"
    text,         \* the argument text (raw, for _validate_string)
    token_start,  \* the argument token_start of _validate_string
    max_depth,    \* parse's max_depth
    allow_dup,    \* parse's allow_dup
    pos,          \* lex: the local pos
    gen,          \* lex: "running", "done" (returned) or "raised"
    spans,        \* lex: the matches accepted so far, <<start, end, kind>> each
    yielded,      \* the tokens the caller of lex has received, in order
    buf,          \* LookAhead._buf
    pc,           \* where the call chain of parse stands
    stack,        \* the _parse_array / _parse_object calls in progress
    depth,        \* the depth argument of the _parse_value call about to run
    result,       \* parse's local result, <<>> until the root value is parsed
    outcome,      \* what the entry point returned or raised
    calls         \* the peek / next calls made on a bare cursor, with what each gave

inputs == <<mode, text, token_start, max_depth, allow_dup>>
lexer == <<pos, gen, spans>>
vars == <<mode, text, token_start, max_depth, allow_dup, pos, gen, spans, yielded,
          buf, pc, stack, depth, result, outcome, calls>>

Running == [st |-> "running", val |-> <<>>, err |-> <<>>]
Returned(v) == [st |-> "ok", val |-> v, err |-> <<>>]
Raised(e) == [st |-> "error", val |-> <<>>, err |-> e]

InitNest ==
    \E ks \in NestShapes, fill \in 0..2, sib \in 0..2, md \in 0..MaxNest :
        /\ mode = "parse"
        /\ text = NestText(ks, fill, sib)
        /\ token_start = 0
        /\ max_depth = md
        /\ allow_dup = FALSE

InitTail ==
    \E pre \in Prefixes, tl \in SeqsUpTo(TailPieces, MaxTail), ad \in BOOLEAN :
        /\ mode = "parse"
        /\ text = pre \o Cat(tl)
        /\ token_start = 0
        /\ max_depth = DEPTH_LIMIT_DEFAULT
        /\ allow_dup = ad

InitKeys ==
    \E keys \in SeqsUpTo(KeyLexemes, MaxKeys) \ {<<>>}, nested \in BOOLEAN, ad \in BOOLEAN :
        /\ mode = "parse"
        /\ text = ObjectText(keys, nested)
        /\ token_start = 0
        /\ max_depth = DEPTH_LIMIT_DEFAULT
        /\ allow_dup = ad

InitLex ==
    \E ps \in SeqsUpTo(LexPieces, MaxLexPieces) :
        /\ mode = "lex"
        /\ text = Cat(ps)
        /\ token_start = 0
        /\ max_depth = DEPTH_LIMIT_DEFAULT
        /\ allow_dup = FALSE

InitValidate ==
    \E ps \in SeqsUpTo(StrPieces, MaxStrPieces), open \in {<<>>, <<QUOTE>>},
       close \in {<<>>, <<QUOTE>>}, ts \in 0..MaxStart :
        /\ mode = "validate"
        /\ text = open \o Cat(ps) \o close
        /\ token_start = ts
        /\ max_depth = DEPTH_LIMIT_DEFAULT
        /\ allow_dup = FALSE

\* lex or parse of a text whose last token, if the quote closes, is a string
InitOpen ==
    \E md \in {"lex", "parse"}, lead \in OpenLeads,
       body \in SeqsUpTo(OpenPieces, MaxOpenPieces) :
        /\ mode = md
        /\ text = lead \o <<QUOTE>> \o Cat(body)
        /\ token_start = 0
        /\ max_depth = DEPTH_LIMIT_DEFAULT
        /\ allow_dup = FALSE

\* LookAhead(lex(text)) driven by a caller other than parse
InitCursor ==
    \E ps \in SeqsUpTo(CursorPieces, MaxCursorPieces) :
        /\ mode = "cursor"
        /\ text = Cat(ps)
        /\ token_start = 0
        /\ max_depth = DEPTH_LIMIT_DEFAULT
        /\ allow_dup = FALSE

Init ==
    /\ InitNest \/ InitTail \/ InitKeys \/ InitLex \/ InitValidate \/ InitOpen \/ InitCursor
    /\ pos = 0
    /\ gen = "running"
    /\ spans = <<>>
    /\ yielded = <<>>
    /\ buf = <<>>
    /\ pc = mode
    /\ stack = <<>>
    /\ depth = 0
    /\ result = <<>>
    /\ outcome = Running
    /\ calls = <<>>

(***************************************************************************)
(* Steps shared by the actions.                                            *)
(***************************************************************************)
LxOf == [pos |-> pos, gen |-> gen, spans |-> spans]

SetCursor(r) ==
    /\ buf' = r.buf
    /\ pos' = r.lx.pos
    /\ gen' = r.lx.gen
    /\ spans' = r.lx.spans

\* an exception leaves the entry point: the calls in progress are unwound
Fail(e) ==
    /\ outcome' = Raised(e)
    /\ pc' = "done"
    /\ stack' = <<>>
    /\ result' = <<>>
    /\ depth' = depth

Goto(p, stk, d) ==
    /\ outcome' = outcome
    /\ pc' = p
    /\ stack' = stk
    /\ result' = result
    /\ depth' = d

Pop(stk) == SubSeq(stk, 1, Len(stk) - 1)
Top(stk) == stk[Len(stk)]

\* a _parse_value call returns v to its caller: parse (line 333),
\* _parse_array (line 270: items.append) or _parse_object (line 305: obj[key] =)
ReturnTo(v, stk) ==
    IF stk = <<>>
    THEN /\ outcome' = outcome
         /\ pc' = "end"
         /\ stack' = stk
         /\ result' = v
         /\ depth' = depth
    ELSE IF Top(stk).fn = "array"
    THEN Goto("array_more", [stk EXCEPT ![Len(stk)].acc = Append(@, v)], depth)
    ELSE Goto("object_more",
              [stk EXCEPT ![Len(stk)].acc = DictSet(@, Top(stk).key, v)], depth)

EndOfInput == SynErr("UnexpectedEndOfInput", <<>>, <<>>)

\* _expect after next(tokens) gave r
ExpectOn(r, expected_kind, expected_value) ==
    LET bad == [st |-> "raise", value |-> <<>>, err |-> <<>>, lx |-> r.lx, buf |-> r.buf]
    IN  IF r.st = "stop" THEN [bad EXCEPT !.err = EndOfInput]
        ELSE IF r.st = "raise" THEN [bad EXCEPT !.err = r.err]
        ELSE IF ExpectMismatch(r.tok, expected_kind, expected_value)
        THEN [bad EXCEPT !.err =
                 SynErr("UnexpectedToken", <<r.tok.offset>>,
                        <<r.tok.kind, r.tok.value, expected_kind, expected_value>>)]
        ELSE [bad EXCEPT !.st = "ok", !.value = r.tok.value]

\* _expect(tokens, expected_kind, expected_value); expected_value is <<>> for None
Expect(s, b, lx, expected_kind, expected_value) ==
    ExpectOn(LANext(s, b, lx), expected_kind, expected_value)

(***************************************************************************)
(* Actions.                                                                *)
(***************************************************************************)
\* a direct call _validate_string(raw, token_start) that gave v
ValidateDone(v) ==
    /\ outcome' = IF v.ok THEN Returned(v.val) ELSE Raised(v.err)
    /\ pc' = "done"

ValidateCall ==
    /\ pc = "validate"
    /\ ValidateDone(ValidateString(text, token_start))
    /\ UNCHANGED <<inputs, calls, lexer, yielded, buf, stack, depth, result>>

\* the caller of lex after one iteration of its loop gave r
LexIterOn(r) ==
    /\ pos' = r.p
    /\ spans' = spans \o r.span
    /\ yielded' = IF r.st = "yield" THEN Append(yielded, r.tok) ELSE yielded
    /\ gen' = CASE r.st = "raise" -> "raised"
                [] r.st = "stop" -> "done"
                [] OTHER -> gen
    /\ outcome' = CASE r.st = "raise" -> Raised(r.err)
                    [] r.st = "stop" -> Returned(<<>>)
                    [] OTHER -> outcome
    /\ pc' = IF r.st \in {"raise", "stop"} THEN "done" ELSE pc

\* lex driven on its own (for tok in lex(data)): one iteration of its loop
LexIter ==
    /\ pc = "lex"
    /\ LexIterOn(LexIterOp(text, pos))
    /\ UNCHANGED <<inputs, calls, buf, stack, depth, result>>

\* parse, lines 328-333, after tokens.peek() gave r
ParseStartOn(r) ==
    /\ SetCursor(r)
    /\ IF r.st = "stop" THEN Fail(StopIteration)
       ELSE IF r.st = "raise" THEN Fail(r.err)
       ELSE IF RootRejected(r.tok.kind)
       THEN Fail(SynErr("RootMustBeContainer", <<r.tok.offset>>,
                        <<r.tok.kind, r.tok.value>>))
       ELSE Goto("value", <<>>, 0)

\* parse, lines 327-333: the cursor is built and the first token peeked
ParseStart ==
    /\ pc = "parse"
    /\ ParseStartOn(LAPeek(text, buf, LxOf))
    /\ UNCHANGED <<inputs, calls, yielded>>

\* _parse_value, lines 234-246, after next(tokens) gave r
ParseValueOn(r) ==
    /\ SetCursor(r)
    /\ IF r.st = "stop" THEN Fail(EndOfInput)
       ELSE IF r.st = "raise" THEN Fail(r.err)
       ELSE IF r.tok.kind \in {"STRING", "NUMBER", "LITERAL"}
       THEN ReturnTo(ScalarVal(r.tok), stack)
       ELSE IF r.tok.kind = "BRACE" /\ r.tok.value = "{"
       THEN Goto("object_open", Append(stack, Frame("object", depth + 1)), depth)
       ELSE IF r.tok.kind = "BRACKET" /\ r.tok.value = "["
       THEN Goto("array_open", Append(stack, Frame("array", depth + 1)), depth)
       ELSE Fail(SynErr("ValueExpected", <<>>, <<r.tok.kind, r.tok.value>>))

\* _parse_value
ParseValue ==
    /\ pc = "value"
    /\ IF DepthExceeded(depth, max_depth)
       THEN /\ Fail(SynErr("DepthExceeded", <<>>, <<>>))
            /\ UNCHANGED <<buf, lexer>>
       ELSE ParseValueOn(LANext(text, buf, LxOf))
    /\ UNCHANGED <<inputs, calls, yielded>>

\* a container after _expect(tokens, "COMMA", ",") gave e
CommaOn(e, onward) ==
    /\ SetCursor(e)
    /\ IF e.st = "raise" THEN Fail(e.err) ELSE Goto(onward, stack, Top(stack).depth)

\* a container after tokens.peek() gave r, on entry (first = TRUE) or after an
\* element or member (first = FALSE): the closer ends the container, anything
\* else goes onward, after a comma unless first
ContainerOn(r, fn, closeKind, closeValue, first, onward) ==
    IF r.st = "stop" THEN SetCursor(r) /\ Fail(EndOfInput)
    ELSE IF r.st = "raise" THEN SetCursor(r) /\ Fail(r.err)
    ELSE IF IsCloser(r.tok, closeKind, closeValue)
    THEN /\ SetCursor(LANext(text, r.buf, r.lx))
         /\ ReturnTo(IF fn = "array" THEN ArrayVal(Top(stack).acc)
                                     ELSE ObjectVal(Top(stack).acc),
                     Pop(stack))
    ELSE IF first
    THEN SetCursor(r) /\ Goto(onward, stack, Top(stack).depth)
    ELSE CommaOn(Expect(text, r.buf, r.lx, "COMMA", <<",">>), onward)

\* _parse_array, lines 260-267
ArrayOpen ==
    /\ pc = "array_open"
    /\ ContainerOn(LAPeek(text, buf, LxOf), "array", "BRACKET", "]", TRUE, "value")
    /\ UNCHANGED <<inputs, calls, yielded>>

\* _parse_array, lines 271-278, after items.append
ArrayMore ==
    /\ pc = "array_more"
    /\ ContainerOn(LAPeek(text, buf, LxOf), "array", "BRACKET", "]", FALSE, "value")
    /\ UNCHANGED <<inputs, calls, yielded>>

\* _parse_object, lines 291-298
ObjectOpen ==
    /\ pc = "object_open"
    /\ ContainerOn(LAPeek(text, buf, LxOf), "object", "BRACE", "}", TRUE, "object_key")
    /\ UNCHANGED <<inputs, calls, yielded>>

\* _parse_object, line 301, after _expect(tokens, "STRING") gave e
ObjectKeyOn(e) ==
    /\ SetCursor(e)
    /\ IF e.st = "raise" THEN Fail(e.err)
       ELSE Goto("object_colon", [stack EXCEPT ![Len(stack)].key = e.value], depth)

ObjectKey ==
    /\ pc = "object_key"
    /\ ObjectKeyOn(Expect(text, buf, LxOf, "STRING", <<>>))
    /\ UNCHANGED <<inputs, calls, yielded>>

\* _parse_object, lines 302-305 up to the call of _parse_value, after
\* _expect(tokens, "COLON", ":") gave e
ObjectColonOn(e) ==
    /\ SetCursor(e)
    /\ IF e.st = "raise" THEN Fail(e.err)
       ELSE IF IsDuplicate(allow_dup, Top(stack).acc, Top(stack).key)
       THEN Fail(SynErr("DuplicateKey", <<>>, <<>>))
       ELSE Goto("value", stack, Top(stack).depth)

ObjectColon ==
    /\ pc = "object_colon"
    /\ ObjectColonOn(Expect(text, buf, LxOf, "COLON", <<":">>))
    /\ UNCHANGED <<inputs, calls, yielded>>

\* _parse_object, lines 306-313, after obj[key] = ...
ObjectMore ==
    /\ pc = "object_more"
    /\ ContainerOn(LAPeek(text, buf, LxOf), "object", "BRACE", "}", FALSE, "object_key")
    /\ UNCHANGED <<inputs, calls, yielded>>

\* parse returns the root value without looking for a further token
ParseEndNoCheck(r) ==
    /\ SetCursor(r)
    /\ IF r.st = "raise" THEN Fail(r.err)
       ELSE /\ outcome' = Returned(result)
            /\ pc' = "done"
            /\ UNCHANGED <<stack, result, depth>>

\* parse, lines 334-338, after next(tokens) gave r
ParseEndOn(r) ==
    /\ SetCursor(r)
    /\ IF r.st = "stop"
       THEN /\ outcome' = Returned(result)
            /\ pc' = "done"
            /\ UNCHANGED <<stack, result, depth>>
       ELSE IF r.st = "raise" THEN Fail(r.err)
       ELSE Fail(SynErr("ExtraData", <<r.tok.offset>>, <<>>))

ParseEnd ==
    /\ pc = "end"
    /\ ParseEndOn(LANext(text, buf, LxOf))
    /\ UNCHANGED <<inputs, calls, yielded>>

\* a call op on the cursor gave r
CursorOn(op, r) ==
    /\ SetCursor(r)
    /\ calls' = Append(calls, [op |-> op, st |-> r.st, tok |-> r.tok, err |-> r.err])

\* tokens.peek() by a caller that goes on whatever it gives
CursorPeek ==
    /\ pc = "cursor"
    /\ Len(calls) < MaxCalls
    /\ CursorOn("peek", LAPeek(text, buf, LxOf))
    /\ UNCHANGED <<inputs, yielded, pc, stack, depth, result, outcome>>

\* next(tokens) by a caller that goes on whatever it gives
CursorNext ==
    /\ pc = "cursor"
    /\ Len(calls) < MaxCalls
    /\ CursorOn("next", LANext(text, buf, LxOf))
    /\ UNCHANGED <<inputs, yielded, pc, stack, depth, result, outcome>>

Next ==
    \/ CursorPeek
    \/ CursorNext
    \/ ValidateCall
    \/ LexIter
    \/ ParseStart
    \/ ParseValue
    \/ ArrayOpen
    \/ ArrayMore
    \/ ObjectOpen
    \/ ObjectKey
    \/ ObjectColon
    \/ ObjectMore
    \/ ParseEnd

Spec == Init /\ [][Next]_vars

(***************************************************************************)
(* What the claims speak of.                                               *)
(***************************************************************************)
ParseDone == mode = "parse" /\ pc = "done"
LexDone == mode = "lex" /\ pc = "done"
ValidateDone0 == mode = "validate" /\ pc = "done"
FailedWith(kind) == outcome.st = "error" /\ outcome.err.kind = kind
FailedAt(kind, offset) == FailedWith(kind) /\ outcome.err.offset = <<offset>>
\* parse ran to its end without meeting the depth limit
ParsedInDepth == ParseDone /\ ~ FailedWith("DepthExceeded")

\* the first token of text, as lex yields it on a fresh call
FirstToken == GenNext(text, [pos |-> 0, gen |-> "running", spans |-> <<>>])

(***************************************************************************)
(* C1.  For every max_depth >= 0 and every document of N containers nested *)
(* one inside another, whatever the innermost one holds: parse fails with  *)
(* Depth Exceeded when N = max_depth + 1 and succeeds when N = max_depth;  *)
(* siblings do not add to the depth.                                       *)
(***************************************************************************)
C1_DepthBoundary ==
    ParseDone =>
        \A ks \in NestShapes, fill \in 0..2, sib \in 0..2 :
            text = NestText(ks, fill, sib) =>
                /\ Len(ks) = max_depth + 1 => FailedWith("DepthExceeded")
                /\ Len(ks) = max_depth => outcome.st = "ok"

(***************************************************************************)
(* C2, as claimed.  When the first token is anything but '{' or '[', parse *)
(* fails with Root Must Be Container reporting that token's kind, value    *)
(* and offset, before any value is parsed; when it is '{' or '[', parse    *)
(* never fails with that error.                                            *)
(***************************************************************************)
IsOpener(tok) ==
    \/ tok.kind = "BRACE" /\ tok.value = "{"
    \/ tok.kind = "BRACKET" /\ tok.value = "["

\* parse failed with Root Must Be Container for tok, having done no more than
\* peek it
RootFailure(g) ==
    /\ FailedAt("RootMustBeContainer", g.tok.offset)
    /\ outcome.err.info[1] = g.tok.kind
    /\ outcome.err.info[2] = g.tok.value
    /\ buf = <<g.tok>>
    /\ pos = g.lx.pos

C2_Original_On(g) ==
    g.st = "yield" =>
        IF IsOpener(g.tok) THEN ~ FailedWith("RootMustBeContainer") ELSE RootFailure(g)

C2_Original == ParseDone => C2_Original_On(FirstToken)

(***************************************************************************)
(* C2, amended.  When the first token's kind is neither BRACE nor BRACKET  *)
(* (a string, number, literal, comma or colon), parse fails with Root Must *)
(* Be Container reporting that token's kind, value and offset, before any  *)
(* value is parsed; when its kind is BRACE or BRACKET parse never fails    *)
(* with that error: '{' and '[' are parsed, and a leading '}' or ']' fails *)
(* with Value Expected.                                                    *)
(***************************************************************************)
C2_RootCheck_On(g) ==
    g.st = "yield" =>
        IF g.tok.kind \in {"BRACE", "BRACKET"}
        THEN /\ ~ FailedWith("RootMustBeContainer")
             /\ ~ IsOpener(g.tok) => FailedWith("ValueExpected")
        ELSE RootFailure(g)

C2_RootCheck == ParseDone => C2_RootCheck_On(FirstToken)

\* the root is the literal true at offset 1, after a space
C2_Witness ==
    /\ ParseDone
    /\ text = <<" ">> \o L_true
    /\ FailedAt("RootMustBeContainer", 1)
    /\ outcome.err.info = <<"LITERAL", "True">>

(***************************************************************************)
(* C4.  For every text and configuration, parse returns a value or fails   *)
(* with a SyntaxError; nothing else reaches the caller, and a failure      *)
(* carries no partial result.                                              *)
(***************************************************************************)
C4_OnlySyntaxErrors ==
    ParseDone =>
        \/ outcome.st = "ok"
        \/ outcome.st = "error" /\ outcome.err.class = "SyntaxError" /\ outcome.val = <<>>

(***************************************************************************)
(* C3.  When a key, compared by its decoded text, occurs a second time in  *)
(* one object and nothing has failed before: with the default              *)
(* configuration parse fails with Duplicate Key once the repeated key and  *)
(* its colon are consumed and before its value is parsed; with duplicates  *)
(* allowed the parse goes on and the object holds exactly one entry for    *)
(* the key, whose value is that of the last occurrence.  A key of an       *)
(* object nested in a member's value is not a repetition.                  *)
(***************************************************************************)
\* the text each key lexeme of KeyLexemes stands for
KeyText(k) == IF k = L_b THEN <<98>> ELSE <<97>>

\* the value written for the i-th member of ObjectText(keys, nested)
MemberValue(i, nested) ==
    IF nested /\ i = 1
    THEN ObjectVal(<< <<KeyText(L_a), [t |-> "NUMBER", v |-> <<"int", 9>>]>> >>)
    ELSE [t |-> "NUMBER", v |-> <<"int", i>>]

Repeats(keys, j) == \E i \in 1..(j - 1) : KeyText(keys[i]) = KeyText(keys[j])
LastOf(keys, kt) ==
    CHOOSE i \in 1..Len(keys) :
        /\ KeyText(keys[i]) = kt
        /\ \A i2 \in (i + 1)..Len(keys) : KeyText(keys[i2]) # kt

\* the offset just past the colon of the j-th key of ObjectText(keys, nested)
PastColon(keys, j, nested) ==
    Len(ObjectText(SubSeq(keys, 1, j - 1), nested)) + Len(keys[j]) + 1

\* members is one entry per key text of keys, each with the value of the
\* key's last occurrence
LastWins(members, keys, nested) ==
    /\ \A a, b \in 1..Len(members) : members[a][1] = members[b][1] => a = b
    /\ \A i \in 1..Len(keys) : \E a \in 1..Len(members) : members[a][1] = KeyText(keys[i])
    /\ \A a \in 1..Len(members) :
           /\ \E i \in 1..Len(keys) : members[a][1] = KeyText(keys[i])
           /\ members[a][2].t = MemberValue(LastOf(keys, members[a][1]), nested).t
           /\ members[a][2] = MemberValue(LastOf(keys, members[a][1]), nested)

C3_On(keys, nested) ==
    IF ~ allow_dup /\ \E j \in 1..Len(keys) : Repeats(keys, j)
    THEN LET j == CHOOSE j \in 1..Len(keys) :
                      Repeats(keys, j) /\ \A j2 \in 1..(j - 1) : ~ Repeats(keys, j2)
         IN  /\ FailedWith("DuplicateKey")
             /\ buf = <<>>
             /\ pos = PastColon(keys, j, nested)
    ELSE /\ outcome.st = "ok"
         /\ outcome.val.t = "object"
         /\ LastWins(outcome.val.v, keys, nested)

C3_DuplicateKeys ==
    ParsedInDepth =>
        /\ FailedWith("DuplicateKey") =>
               ~ allow_dup /\ buf = <<>> /\ At(text, pos - 1) = ":"
        /\ \A keys \in SeqsUpTo(KeyLexemes, MaxKeys) \ {<<>>}, nested \in BOOLEAN :
               text = ObjectText(keys, nested) => C3_On(keys, nested)

\* {"a":1,"b":2,"a":3} parsed with duplicates allowed: two entries
C3_Witness ==
    /\ ParseDone
    /\ allow_dup
    /\ text = ObjectText(<<L_a, L_b, L_ua>>, FALSE)
    /\ outcome.st = "ok"
    /\ Len(outcome.val.v) = 2

(***************************************************************************)
(* C5.  Once the root container is parsed, parse returns its value only if *)
(* the token sequence is exhausted; if a further token remains it fails    *)
(* with Extra Data at the offset of the first token after the root value   *)
(* ('[1] 1' gives offset 4).                                               *)
(***************************************************************************)
RECURSIVE LeadingSpaces(_)
LeadingSpaces(s) ==
    IF s # <<>> /\ Head(s) = " " THEN 1 + LeadingSpaces(Tail(s)) ELSE 0

\* the first characters of the lexemes of TailPieces that start a token
TokenStarts == {"[", "]", "{", "}", ",", ":", "1", "0", QUOTE, "t"}

\* what parse does when the root value v ends at offset base of text
AfterRoot(base, v) ==
    LET rest == Slice(text, base, Len(text))
        k == LeadingSpaces(rest)
    IN  IF k = Len(rest)
        THEN outcome.st = "ok" /\ outcome.val = v
        ELSE At(rest, k) \in TokenStarts => FailedAt("ExtraData", base + k)

CompleteRoots ==
    { <<<<"[", "1", "]">>, ArrayVal(<<[t |-> "NUMBER", v |-> <<"int", 1>>]>>)>>,
      <<<<"{", "}">>, ObjectVal(<<>>)>> }

C5_ExtraData ==
    ParsedInDepth =>
        /\ outcome.st = "ok" => gen = "done" /\ buf = <<>> /\ pos = Len(text)
        /\ FailedWith("ExtraData") => gen = "running" /\ buf = <<>>
        /\ \A root \in CompleteRoots :
               Slice(text, 0, Len(root[1])) = root[1] => AfterRoot(Len(root[1]), root[2])

\* '[1] 1'
C5_Witness ==
    /\ ParseDone
    /\ text = <<"[", "1", "]", " ", "1">>
    /\ FailedAt("ExtraData", 4)

(***************************************************************************)
(* C6.  After each element of an array and each member of an object the    *)
(* parser peeks the next token: the matching closer is consumed and ends   *)
(* the container, end of input fails with Unexpected End Of Input, and any *)
(* other token that is not a comma fails with Unexpected Token reporting   *)
(* the token's kind, value and offset and COMMA as the expected token.     *)
(***************************************************************************)
\* kind and value of the token of TailPieces that starts with c
KindOf(c) ==
    CASE c \in {"[", "]"} -> "BRACKET"
      [] c \in {"{", "}"} -> "BRACE"
      [] c = ":" -> "COLON"
      [] c \in {"0", "1"} -> "NUMBER"
      [] c = QUOTE -> "STRING"
      [] c = "t" -> "LITERAL"
ValueOf(c) ==
    CASE c \in {"[", "]", "{", "}", ":"} -> c
      [] c = "0" -> <<"int", 0>>
      [] c = "1" -> <<"int", 1>>
      [] c = QUOTE -> <<97>>
      [] c = "t" -> "True"

\* documents that stop after an element or member of their root container:
\* <<text so far, the closer, the root value if closed here>>
One == [t |-> "NUMBER", v |-> <<"int", 1>>]
AfterElement ==
    { <<<<"[", "1">>, "]", ArrayVal(<<One>>)>>,
      <<<<"{">> \o L_a \o <<":", "1">>, "}", ObjectVal(<< <<<<97>>, One>> >>)>>,
      <<<<"[", "[", "1", "]">>, "]", ArrayVal(<<ArrayVal(<<One>>)>>)>> }

C6_On(base, closer, v) ==
    LET rest == Slice(text, base, Len(text))
        k == LeadingSpaces(rest)
        c == At(rest, k)
    IN  IF k = Len(rest) THEN FailedWith("UnexpectedEndOfInput")
        ELSE IF c = closer THEN AfterRoot(base + k + 1, v)
        ELSE c \in TokenStarts \ {","} =>
                 /\ FailedAt("UnexpectedToken", base + k)
                 /\ outcome.err.info[1] = KindOf(c)
                 \* (a 1 followed by a digit starts a longer number)
                 /\ \/ c = "1" /\ IsDigit(At(rest, k + 1))
                    \/ outcome.err.info[2] = ValueOf(c)
                 /\ outcome.err.info[3] = "COMMA"
                 /\ outcome.err.info[4] = <<",">>

C6_AfterElement ==
    ParsedInDepth =>
        \A e \in AfterElement :
            \* the element is the prefix's last token, not the start of a longer number
            (/\ Slice(text, 0, Len(e[1])) = e[1]
             /\ ~ (IsDigit(At(text, Len(e[1]) - 1)) /\ IsDigit(At(text, Len(e[1])))))
                => C6_On(Len(e[1]), e[2], e[3])

\* {"a":1 "a"   : the missing comma of test_missing_comma_in_object_reports_expected
C6_Witness ==
    /\ ParseDone
    /\ text = <<"{">> \o L_a \o <<":", "1", " ">> \o L_a
    /\ FailedAt("UnexpectedToken", 7)
    /\ outcome.err.info = <<"STRING", <<97>>, "COMMA", <<",">>>>

(***************************************************************************)
(* C7.  In a string lexeme that starts at offset s, the first backslash,   *)
(* at interior index i, that does not begin a valid escape decides the     *)
(* error: before 'u' with fewer than 4 characters left, Short Unicode      *)
(* Escape; before 'u' and 4 characters not all hex digits, Invalid Hex     *)
(* Escape with the 6-character sequence; before any character outside      *)
(* " \ / b f n r t u, Invalid Escape; the offset reported is s + 1 + i.    *)
(***************************************************************************)
WellQuoted(raw) == Len(raw) >= 2 /\ raw[1] = QUOTE /\ raw[Len(raw)] = QUOTE
Interior(raw) == Slice(raw, 1, Len(raw) - 1)

HexDigitSet ==
    {"0", "1", "2", "3", "4", "5", "6", "7", "8", "9",
     "a", "b", "c", "d", "e", "f", "A", "B", "C", "D", "E", "F"}

\* the length of the valid escape that begins at the backslash at index i, 0
\* when none does
ValidEscapeLen(inner, i) ==
    IF At(inner, i + 1) \in {QUOTE, BSLASH, "/", "b", "f", "n", "r", "t"} THEN 2
    ELSE IF /\ At(inner, i + 1) = "u"
            /\ \A k \in (i + 2)..(i + 5) : At(inner, k) \in HexDigitSet
    THEN 6
    ELSE 0

\* the index of the first backslash at or after i that begins no valid escape,
\* Len(inner) when there is none
RECURSIVE FirstBadEscape(_, _)
FirstBadEscape(inner, i) ==
    IF i >= Len(inner) THEN Len(inner)
    ELSE IF At(inner, i) # BSLASH THEN FirstBadEscape(inner, i + 1)
    ELSE IF ValidEscapeLen(inner, i) = 0 THEN i
    ELSE FirstBadEscape(inner, i + ValidEscapeLen(inner, i))

EscapeErrors == {"ShortUnicodeEscape", "InvalidHexEscape", "InvalidEscape"}

C7_On(inner, i) ==
    IF i = Len(inner)
    THEN ~ (outcome.st = "error" /\ outcome.err.kind \in EscapeErrors)
    ELSE IF i + 1 = Len(inner)
    THEN ~ (outcome.st = "error" /\ outcome.err.kind \in EscapeErrors)
    ELSE IF At(inner, i + 1) = "u"
    THEN IF Len(inner) - (i + 2) < 4
         THEN FailedAt("ShortUnicodeEscape", token_start + 1 + i)
         ELSE /\ FailedAt("InvalidHexEscape", token_start + 1 + i)
              /\ outcome.err.info = SubSeq(inner, i + 1, i + 6)
    ELSE /\ FailedAt("InvalidEscape", token_start + 1 + i)
         /\ outcome.err.info = <<At(inner, i + 1)>>

C7_EscapeErrors ==
    /\ (ValidateDone0 /\ WellQuoted(text)) =>
           C7_On(Interior(text), FirstBadEscape(Interior(text), 0))
    \* through lex the offset is that of the backslash in the source text
    /\ (LexDone /\ outcome.st = "error" /\ outcome.err.kind \in EscapeErrors) =>
           At(text, outcome.err.offset[1]) = BSLASH

\* "a\u12": the escape is cut short by the closing quote
C7_Witness ==
    /\ ValidateDone0
    /\ token_start = 1
    /\ text = <<QUOTE, "a", BSLASH, "u", "1", "2", QUOTE>>
    /\ FailedAt("ShortUnicodeEscape", 3)

(***************************************************************************)
(* C8.  When every escape of a string is well formed, a high-surrogate     *)
(* \uXXXX escape immediately followed by a low-surrogate \uXXXX escape is  *)
(* decoded into one code point and the string is accepted; Unpaired        *)
(* Surrogate is reported exactly when the string holds a surrogate escape  *)
(* that is not half of such a pair.                                        *)
(***************************************************************************)
IsHigh(code) == 55296 <= code /\ code <= 56319
IsLow(code) == 56320 <= code /\ code <= 57343
IsUEscape(inner, i) == At(inner, i) = BSLASH /\ At(inner, i + 1) = "u"
IsPairAt(inner, i) ==
    /\ IsUEscape(inner, i) /\ IsHigh(Hex4(inner, i + 2))
    /\ IsUEscape(inner, i + 6) /\ IsLow(Hex4(inner, i + 8))
PairPoint(inner, i) ==
    65536 + 1024 * (Hex4(inner, i + 2) - 55296) + (Hex4(inner, i + 8) - 56320)

\* the escapes of inner from index i on: <<index, "pair" | "lone" | "other">>
RECURSIVE Escapes(_, _)
Escapes(inner, i) ==
    IF i >= Len(inner) THEN <<>>
    ELSE IF At(inner, i) # BSLASH THEN Escapes(inner, i + 1)
    ELSE IF ~ IsUEscape(inner, i) THEN <<<<i, "other">>>> \o Escapes(inner, i + 2)
    ELSE IF IsPairAt(inner, i) THEN <<<<i, "pair">>>> \o Escapes(inner, i + 12)
    ELSE IF IsSurrogate(Hex4(inner, i + 2)) THEN <<<<i, "lone">>>> \o Escapes(inner, i + 6)
    ELSE <<<<i, "other">>>> \o Escapes(inner, i + 6)

C8_On(inner, es) ==
    IF \E k \in 1..Len(es) : es[k][2] = "lone"
    THEN FailedWith("UnpairedSurrogate")
    ELSE /\ outcome.st = "ok"
         /\ \A k \in 1..Len(es) :
                es[k][2] = "pair" =>
                    \E m \in 1..Len(outcome.val) : outcome.val[m] = PairPoint(inner, es[k][1])

C8_SurrogatePairs ==
    (/\ ValidateDone0
     /\ WellQuoted(text)
     /\ FirstBadEscape(Interior(text), 0) = Len(Interior(text)))
        => C8_On(Interior(text), Escapes(Interior(text), 0))

(***************************************************************************)
(* C9, as claimed.  A number written with a leading zero on its integer    *)
(* part followed by another digit is rejected by lex with Malformed        *)
(* Character at the offset of the stray digit, and lex yields no token for *)
(* that digit.                                                             *)
(***************************************************************************)
\* the offset of the zero when the k-th token lex yielded is a number whose
\* integer part is the single digit 0
ZeroOf(k) ==
    IF At(text, yielded[k].offset) = "-" THEN yielded[k].offset + 1 ELSE yielded[k].offset

\* the k-th token is such a zero and a digit follows it
LeadingZero(k) ==
    /\ yielded[k].kind = "NUMBER"
    /\ At(text, ZeroOf(k)) = "0"
    /\ IsDigit(At(text, ZeroOf(k) + 1))

C9_Original ==
    LexDone =>
        \A k \in 1..Len(yielded) :
            LeadingZero(k) =>
                /\ FailedAt("MalformedCharacter", ZeroOf(k) + 1)
                /\ \A m \in 1..Len(yielded) : yielded[m].offset # ZeroOf(k) + 1

(***************************************************************************)
(* C9, amended.  A number written with a leading zero on its integer part  *)
(* followed by another digit is not rejected by lex: lex yields a NUMBER   *)
(* token of value 0 for the zero and then a separate NUMBER token that     *)
(* starts at the offset of the stray digit, and raises no Malformed        *)
(* Character error there.  parse still rejects 01: as an array element     *)
(* with Unexpected Token (COMMA expected) at the offset of the stray       *)
(* digit, as the whole text with Root Must Be Container at the zero.       *)
(***************************************************************************)
C9_LeadingZero ==
    /\ mode = "lex" =>
           \A k \in 1..Len(yielded) :
               LeadingZero(k) =>
                   /\ yielded[k].value = <<"int", 0>>
                   /\ pc = "done" => Len(yielded) > k
                   /\ Len(yielded) > k =>
                          /\ yielded[k + 1].kind = "NUMBER"
                          /\ yielded[k + 1].offset = ZeroOf(k) + 1
                   /\ ~ FailedAt("MalformedCharacter", ZeroOf(k) + 1)
    /\ (ParsedInDepth /\ Slice(text, 0, 2) = <<"[", "0">> /\ IsDigit(At(text, 2))) =>
           /\ FailedAt("UnexpectedToken", 2)
           /\ outcome.err.info[1] = "NUMBER"
           /\ outcome.err.info[3] = "COMMA"
    /\ (ParseDone /\ Slice(text, 0, 1) = <<"0">> /\ IsDigit(At(text, 1))) =>
           /\ FailedAt("RootMustBeContainer", 0)
           /\ outcome.err.info = <<"NUMBER", <<"int", 0>>>>

\* lex of 01 ends without error, having yielded 0 and 1
C9_Witness ==
    /\ LexDone
    /\ text = <<"0", "1">>
    /\ outcome.st = "ok"
    /\ Len(yielded) = 2
    /\ yielded[2] = Token("NUMBER", <<"int", 1>>, 1)

(***************************************************************************)
(* C10.  At every step of lex the matches accepted so far, tokens and      *)
(* whitespace runs, tile the text from offset 0 to pos without gap or      *)
(* overlap, so the offsets of the tokens yielded increase strictly; lex    *)
(* ends without error only when pos is the length of the text, and fails   *)
(* with Malformed Character at the first offset no match covers, having    *)
(* yielded every token before it.                                          *)
(***************************************************************************)
Tiles ==
    /\ \A i \in 1..Len(spans) :
           /\ spans[i][1] = (IF i = 1 THEN 0 ELSE spans[i - 1][2])
           /\ spans[i][1] < spans[i][2]
    /\ pos = (IF spans = <<>> THEN 0 ELSE spans[Len(spans)][2])
    /\ pos <= Len(text)

\* the accepted matches that are tokens
RECURSIVE TokenSpans(_)
TokenSpans(sp) ==
    IF sp = <<>> THEN <<>>
    ELSE (IF Head(sp)[3] = "WHITESPACE" THEN <<>> ELSE <<Head(sp)>>) \o TokenSpans(Tail(sp))

\* the tokens yielded are the accepted token matches, in order (the last
\* accepted match yields nothing when its string fails validation)
YieldedAll(ts) ==
    /\ Len(yielded) = (IF outcome.st = "error" /\ outcome.err.kind # "MalformedCharacter"
                       THEN Len(ts) - 1 ELSE Len(ts))
    /\ \A k \in 1..Len(yielded) :
           /\ yielded[k].offset = ts[k][1]
           /\ yielded[k].kind = ts[k][3]
    /\ \A k \in 1..(Len(yielded) - 1) : yielded[k].offset < yielded[k + 1].offset

C10_Tiling ==
    /\ mode \in {"lex", "parse"} => Tiles
    /\ mode = "lex" =>
           /\ YieldedAll(TokenSpans(spans))
           /\ (pc = "done" /\ outcome.st = "ok") => pos = Len(text)
           /\ FailedWith("MalformedCharacter") =>
                  /\ outcome.err.offset = <<pos>>
                  /\ pos < Len(text)
                  /\ MatchAt(text, pos) = <<>>
           /\ (pc = "done" /\ pos < Len(text)) => outcome.st = "error"

\* lex of '1 a': the token 1 and the space are accepted, then offset 2 fails
C10_Witness ==
    /\ LexDone
    /\ text = <<"1", " ", "a">>
    /\ FailedAt("MalformedCharacter", 2)
    /\ Len(yielded) = 1
    /\ Len(spans) = 2

(***************************************************************************)
(* C11.  Under any interleaving of peek and next on a LookAhead over       *)
(* lex(text): the buffer never holds more than one token; a peek that      *)
(* gave a token is followed by a call, peek or next, that gives the same   *)
(* token; the tokens the next calls returned, followed by the buffered     *)
(* token if any, are exactly the first tokens of the underlying sequence   *)
(* in order, none skipped and none twice; a call signals the end           *)
(* (StopIteration) only once next has returned every token of the          *)
(* underlying sequence, and from then on, when lex ends without error,     *)
(* both peek and next signal it.                                           *)
(***************************************************************************)
\* the underlying sequence: what next() on lex(text) gives, call after call,
\* until it no longer yields
RECURSIVE Drain(_, _)
DrainOn(s, g) ==
    IF g.st # "yield" THEN [toks |-> <<>>, st |-> g.st]
    ELSE [Drain(s, g.lx) EXCEPT !.toks = <<g.tok>> \o @]

Drain(s, lx) == DrainOn(s, GenNext(s, lx))

\* the tokens the next calls among cs returned
RECURSIVE NextTokens(_)
NextTokens(cs) ==
    IF cs = <<>> THEN <<>>
    ELSE (IF Head(cs).op = "next" /\ Head(cs).st = "yield" THEN <<Head(cs).tok>> ELSE <<>>)
         \o NextTokens(Tail(cs))

IsPrefix(a, b) == Len(a) <= Len(b) /\ a = SubSeq(b, 1, Len(a))

C11_On(under) ==
    /\ Len(buf) <= 1
    /\ IsPrefix(NextTokens(calls) \o buf, under.toks)
    /\ \A i \in 1..Len(calls) :
           /\ (calls[i].op = "peek" /\ calls[i].st = "yield" /\ i < Len(calls)) =>
                  /\ calls[i + 1].st = "yield"
                  /\ calls[i + 1].tok = calls[i].tok
           /\ calls[i].st = "stop" =>
                  NextTokens(SubSeq(calls, 1, i - 1)) = under.toks
           /\ (NextTokens(SubSeq(calls, 1, i - 1)) = under.toks /\ under.st = "stop") =>
                  calls[i].st = "stop"

C11_Cursor == mode = "cursor" => C11_On(Drain(text, [pos |-> 0, gen |-> "running", spans |-> <<>>]))

\* over the text 1[ : peek, peek, next, next, peek, next; the two peeks and
\* the first next give 1, the second next gives [, the last two calls signal
\* the end
C11_Witness ==
    /\ mode = "cursor"
    /\ text = <<"1", "[">>
    /\ [i \in 1..Len(calls) |-> calls[i].op]
           = <<"peek", "peek", "next", "next", "peek", "next">>
    /\ [i \in 1..Len(calls) |-> calls[i].st]
           = <<"yield", "yield", "yield", "yield", "stop", "stop">>
    /\ calls[3].tok.value = <<"int", 1>>
    /\ calls[4].tok.kind = "BRACKET"

(***************************************************************************)
(* C12.  When the text ends inside a string (its opening quote is never    *)
(* closed) and the last character is a lone backslash, lex and parse fail  *)
(* with Trailing Backslash at the offset of that backslash; when the text  *)
(* ends inside a string otherwise, they fail with Unterminated String at   *)
(* the offset of the opening quote.                                        *)
(***************************************************************************)
\* the offset of the first quote of s, from i on (Len(s) when there is none)
RECURSIVE FirstQuote(_, _)
FirstQuote(s, i) ==
    IF i >= Len(s) \/ At(s, i) = QUOTE THEN i ELSE FirstQuote(s, i + 1)

\* how the string whose interior starts at i ends: "closed" by a quote,
\* "backslash" when the text ends on a backslash that escapes nothing,
\* "open" when the text ends otherwise
RECURSIVE StringEnd(_, _)
StringEnd(s, i) ==
    IF i >= Len(s) THEN "open"
    ELSE IF At(s, i) = QUOTE THEN "closed"
    ELSE IF At(s, i) = BSLASH
    THEN (IF i + 1 >= Len(s) THEN "backslash" ELSE StringEnd(s, i + 2))
    ELSE StringEnd(s, i + 1)

C12_On(q, how) ==
    /\ how = "backslash" => FailedAt("TrailingBackslash", Len(text) - 1)
    /\ how = "open" => FailedAt("UnterminatedString", q)

C12_OpenString ==
    (/\ mode \in {"lex", "parse"}
     /\ pc = "done"
     /\ FirstQuote(text, 0) < Len(text)
     /\ SubSeq(text, 1, FirstQuote(text, 0)) \in OpenLeads)
    => C12_On(FirstQuote(text, 0), StringEnd(text, FirstQuote(text, 0) + 1))

====
